---- MODULE Spec2Model ----
(***************************************************************************)
(* Registration, login and the token-protected route of the                *)
(* bcrypt_e_jwt_with_express scaffold: auth.controller (signUp, login),    *)
(* user.repository over the users table, auth.middleware (authMiddleware)  *)
(* in front of user.controller (getAll).                                   *)
(*                                                                         *)
(* Time is in seconds.  A handler runs atomically between two awaits, as   *)
(* on Node's event loop; every await is a separate step.                   *)
(***************************************************************************)
EXTENDS Integers, Sequences, FiniteSets, TLC

VARIABLES users, now, JWT_SECRET, pc, req, loc, res, trace

vars == <<users, now, JWT_SECRET, pc, req, loc, res, trace>>

(***************************************************************************)
(* Bounds and input sets.                                                  *)
(***************************************************************************)
Procs == {"p1", "p2"}

\* the slot that serves requests one at a time under Spec
Serial == {"p1"}

MaxRows == 3

MaxHours == 1

OneHour == 3600

OneDay == 86400

SaltRoundsDefault == 10

Names == {"alice"}

Emails == {"alice@x.com", "Alice@x.com"}

Passwords == {"Secret123!", "secret123"}

Salts == {"s1", "s2"}

Keys == {"secret", "k1"}

TTLs == {0, OneHour}

Ids == {1, 2}

Times == {t \in {k * OneHour + j : k \in 0..MaxHours, j \in {-1, 0, 1}} : t >= 0}

(***************************************************************************)
(* JavaScript values.                                                      *)
(***************************************************************************)
\* an unset environment variable
Undefined == "<undefined>"

\* a || b on strings
OrDefault(v, d) == IF v = Undefined \/ v = "" THEN d ELSE v

\* One space-separated segment of a header is a word or a compact JWT.
Word(s) == [kind |-> "word", text |-> s]

NoSeg == [kind |-> "undefined"]

\* a check against undefined only, letting the empty string through
Falsy_OnlyUndefined(seg) == seg = NoSeg

\* !token
Falsy(seg) == seg = NoSeg \/ seg = Word("")

(***************************************************************************)
(* bcrypt: the digest carries its cost and salt.                           *)
(***************************************************************************)
GenSalt(rounds) == {[cost |-> rounds, s |-> s] : s \in Salts}

BcryptHash(data, salt) ==
  [alg |-> "2b", cost |-> salt.cost, salt |-> salt.s,
   derived |-> <<data, salt.s, salt.cost>>]

BcryptCompare(data, encrypted) ==
  BcryptHash(data, [cost |-> encrypted.cost, s |-> encrypted.salt]) = encrypted

(***************************************************************************)
(* jsonwebtoken, HS256.                                                    *)
(***************************************************************************)
HS256(msg, key) == [msg |-> msg, key |-> key, flipped |-> FALSE]

JwtSign(payload, secret, expiresIn, t) ==
  LET body == [id |-> payload.id, iat |-> t, exp |-> t + expiresIn]
  IN  [kind |-> "jwt", body |-> body, sig |-> HS256(body, secret)]

NoUser == [id |-> 0, iat |-> 0, exp |-> 0]

\* the (error, decoded) pair handed to verify's callback
JwtVerify(token, secret, t) ==
  IF token.kind # "jwt"
    THEN [error |-> "jwt malformed", decoded |-> NoUser]
  ELSE IF token.sig # HS256(token.body, secret)
    THEN [error |-> "invalid signature", decoded |-> NoUser]
  ELSE IF t >= token.body.exp
    THEN [error |-> "jwt expired", decoded |-> NoUser]
  ELSE [error |-> "", decoded |-> token.body]

\* the same token with one bit of its signature changed
FlipSignature(token) == [token EXCEPT !.sig.flipped = ~token.sig.flipped]

(***************************************************************************)
(* Requests and responses.                                                 *)
(***************************************************************************)
NoBody == [name |-> "", email |-> "", password |-> ""]

\* headers.authorization as its list of space-separated segments; <<>> is
\* the absent header (split never yields an empty list)
NoHeader == <<>>

NoReq == [kind |-> "none", body |-> NoBody, authorization |-> NoHeader, user |-> NoUser]

NoRow == [id |-> 0]

NoLoc == [user |-> NoRow, hashedPassword |-> NoRow]

NoRes == [status |-> 0, message |-> "", rows |-> <<>>, token |-> NoSeg]

\* new ApiError(message, statusCode, errors)
ApiError(message, statusCode) == [message |-> message, status |-> statusCode]

\* next(err) with no error-handling middleware registered: Express's final
\* handler answers with err.status and the error's message
NextErr(err) == [status |-> err.status, message |-> err.message, rows |-> <<>>, token |-> NoSeg]

\* res.status(code).json(...)
Json(code, message, rows, token) ==
  [status |-> code, message |-> message, rows |-> rows, token |-> token]

\* const SECRET = process.env.JWT_SECRET || "secret"
SECRET == OrDefault(JWT_SECRET, "secret")

(***************************************************************************)
(* user.repository over the users table.                                   *)
(***************************************************************************)
RowsWithEmail(email) == {i \in 1..Len(users) : users[i].email = email}

\* db("users").where("email", email).first()
findUserByEmail(email) ==
  IF RowsWithEmail(email) = {} THEN NoRow
  ELSE users[CHOOSE i \in RowsWithEmail(email) : \A j \in RowsWithEmail(email) : i <= j]

\* the users table without the unique index on email
UniqueViolation_NoIndex(user) == FALSE

\* table.string("email").unique(): the insert is refused on a taken email
UniqueViolation(user) == RowsWithEmail(user.email) # {}

NewRow(user) ==
  [id |-> Len(users) + 1, name |-> user.name, email |-> user.email,
   password |-> user.password]

\* an insert that first empties the table, as the seed script does
InsertUser_Replace(user) == <<NewRow(user)>>

\* the users table after db("users").insert(user)
InsertUser(user) == Append(users, NewRow(user))

(***************************************************************************)
Init ==
  /\ users = <<>>
  /\ now = 0
  /\ JWT_SECRET \in {Undefined, "", "k1"}
  /\ pc = [p \in Procs |-> "idle"]
  /\ req = [p \in Procs |-> NoReq]
  /\ loc = [p \in Procs |-> NoLoc]
  /\ res = [p \in Procs |-> NoRes]
  /\ trace = [p \in Procs |-> <<>>]

\* the response has been sent; the slot takes the next request
Finish(p) ==
  /\ pc[p] = "done"
  /\ pc' = [pc EXCEPT ![p] = "idle"]
  /\ req' = [req EXCEPT ![p] = NoReq]
  /\ loc' = [loc EXCEPT ![p] = NoLoc]
  /\ res' = [res EXCEPT ![p] = NoRes]
  /\ trace' = [trace EXCEPT ![p] = <<>>]
  /\ UNCHANGED <<users, now, JWT_SECRET>>

Tick ==
  /\ \E t \in Times : t > now /\ now' = t
  /\ UNCHANGED <<users, JWT_SECRET, pc, req, loc, res, trace>>

(***************************************************************************)
(* auth.controller: signUp.                                                *)
(***************************************************************************)
SignUpExists == ApiError("User already exists", 400)

SignUpCatch == ApiError("Error creating user", 400)

\* hashing another field of the body than the password
HashedPassword_WrongField(body, salt) == BcryptHash(body.email, salt)

\* bcrypt.hash(password, salt)
HashedPassword(body, salt) == BcryptHash(body.password, salt)

\* the object handed to insertUser
SignUpRecord(body, hashedPassword) ==
  [name |-> body.name, email |-> body.email, password |-> hashedPassword]

\* res.status(201).json({message, user: newUser})
SignUpCreated(newUser) == Json(201, "User created successfully", newUser, NoSeg)

\* POST /api/auth/register arrives with a validated body
StartSignUp(p) ==
  /\ pc[p] = "idle"
  /\ \E n \in Names, e \in Emails, w \in Passwords :
       req' = [req EXCEPT ![p] = [NoReq EXCEPT !.kind = "signUp",
                 !.body = [name |-> n, email |-> e, password |-> w]]]
  /\ pc' = [pc EXCEPT ![p] = "signUp_find"]
  /\ trace' = [trace EXCEPT ![p] = <<"signUp">>]
  /\ UNCHANGED <<users, now, JWT_SECRET, loc, res>>

\* await userRepository.findUserByEmail(email), then the duplicate check
signUp_find(p) ==
  /\ pc[p] = "signUp_find"
  /\ \E dbFails \in BOOLEAN :
       LET user == findUserByEmail(req[p].body.email) IN
       IF dbFails
         THEN /\ res' = [res EXCEPT ![p] = NextErr(SignUpCatch)]
              /\ pc' = [pc EXCEPT ![p] = "done"]
              /\ trace' = [trace EXCEPT ![p] = Append(@, "next(err)")]
       ELSE IF user # NoRow
         THEN /\ res' = [res EXCEPT ![p] = NextErr(SignUpExists)]
              /\ pc' = [pc EXCEPT ![p] = "done"]
              /\ trace' = [trace EXCEPT ![p] = Append(@, "next(err)")]
       ELSE /\ pc' = [pc EXCEPT ![p] = "signUp_hash"]
            /\ UNCHANGED <<res, trace>>
  /\ UNCHANGED <<users, now, JWT_SECRET, req, loc>>

\* await bcrypt.genSalt(parseInt(process.env.SALT_ROUNDS) || 10); await bcrypt.hash
signUp_hash(p) ==
  /\ pc[p] = "signUp_hash"
  /\ \E salt \in GenSalt(SaltRoundsDefault) :
       loc' = [loc EXCEPT ![p].hashedPassword = HashedPassword(req[p].body, salt)]
  /\ pc' = [pc EXCEPT ![p] = "signUp_insert"]
  /\ UNCHANGED <<users, now, JWT_SECRET, req, res, trace>>

\* await userRepository.insertUser({name, email, password: hashedPassword})
signUp_insert(p) ==
  /\ pc[p] = "signUp_insert"
  /\ Len(users) < MaxRows
  /\ \E dbFails \in BOOLEAN :
       LET user == SignUpRecord(req[p].body, loc[p].hashedPassword) IN
       IF dbFails \/ UniqueViolation(user)
         THEN /\ res' = [res EXCEPT ![p] = NextErr(SignUpCatch)]
              /\ trace' = [trace EXCEPT ![p] = Append(@, "next(err)")]
              /\ UNCHANGED users
       ELSE /\ users' = InsertUser(user)
            /\ res' = [res EXCEPT ![p] = SignUpCreated(<<NewRow(user)>>)]
            /\ UNCHANGED trace
  /\ pc' = [pc EXCEPT ![p] = "done"]
  /\ UNCHANGED <<now, JWT_SECRET, req, loc>>

(***************************************************************************)
(* auth.controller: login.                                                 *)
(***************************************************************************)
LoginNotFound == ApiError("User not found", 404)

LoginInvalidPassword == ApiError("Invalid password", 401)

LoginCatch == ApiError("Error logging in", 400)

\* jwt.sign({ id: user.id }, SECRET, { expiresIn: "1h" })
LoginToken(user, t) == JwtSign([id |-> user.id], SECRET, OneHour, t)

\* res.status(200).json({message, token})
LoginOk(token) == Json(200, "User logged in successfully", <<>>, token)

\* POST /api/auth/login arrives with a validated body
StartLogin(p) ==
  /\ pc[p] = "idle"
  /\ \E e \in Emails, w \in Passwords :
       req' = [req EXCEPT ![p] = [NoReq EXCEPT !.kind = "login",
                 !.body = [name |-> "", email |-> e, password |-> w]]]
  /\ pc' = [pc EXCEPT ![p] = "login_find"]
  /\ trace' = [trace EXCEPT ![p] = <<"login">>]
  /\ UNCHANGED <<users, now, JWT_SECRET, loc, res>>

\* await userRepository.findUserByEmail(email), then the existence check
login_find(p) ==
  /\ pc[p] = "login_find"
  /\ \E dbFails \in BOOLEAN :
       LET user == findUserByEmail(req[p].body.email) IN
       IF dbFails
         THEN /\ res' = [res EXCEPT ![p] = NextErr(LoginCatch)]
              /\ pc' = [pc EXCEPT ![p] = "done"]
              /\ trace' = [trace EXCEPT ![p] = Append(@, "next(err)")]
              /\ UNCHANGED loc
       ELSE IF user = NoRow
         THEN /\ res' = [res EXCEPT ![p] = NextErr(LoginNotFound)]
              /\ pc' = [pc EXCEPT ![p] = "done"]
              /\ trace' = [trace EXCEPT ![p] = Append(@, "next(err)")]
              /\ UNCHANGED loc
       ELSE /\ loc' = [loc EXCEPT ![p].user = user]
            /\ pc' = [pc EXCEPT ![p] = "login_compare"]
            /\ UNCHANGED <<res, trace>>
  /\ UNCHANGED <<users, now, JWT_SECRET, req>>

\* a comparison whose result is not awaited: the pending promise is truthy
IsPasswordValid_NotAwaited(password, user) == TRUE

\* await bcrypt.compare(password, user.password)
IsPasswordValid(password, user) == BcryptCompare(password, user.password)

\* the comparison, then sign and answer
login_compare(p) ==
  /\ pc[p] = "login_compare"
  /\ IF ~IsPasswordValid(req[p].body.password, loc[p].user)
       THEN /\ res' = [res EXCEPT ![p] = NextErr(LoginInvalidPassword)]
            /\ trace' = [trace EXCEPT ![p] = Append(@, "next(err)")]
       ELSE /\ res' = [res EXCEPT ![p] = LoginOk(LoginToken(loc[p].user, now))]
            /\ UNCHANGED trace
  /\ pc' = [pc EXCEPT ![p] = "done"]
  /\ UNCHANGED <<users, now, JWT_SECRET, req, loc>>

(***************************************************************************)
(* auth.middleware in front of user.controller.getAll                      *)
(* (router.get("/", authMiddleware, userController.getAll)).               *)
(***************************************************************************)
\* the tokens a client may present at time t
Tokens(t) ==
  LET signed == {JwtSign([id |-> i], k, ttl, iat) :
                   i \in Ids, k \in Keys, ttl \in TTLs, iat \in {u \in Times : u <= t}}
  IN  signed \cup {FlipSignature(tok) : tok \in signed} \cup {Word("garbage")}

\* the Authorization headers a client may send at time t
Headers(t) ==
  {NoHeader, <<Word("Bearer")>>, <<Word("Bearer"), Word("")>>}
    \cup {<<Word(scheme), tok>> : scheme \in {"Bearer", "Basic"}, tok \in Tokens(t)}
    \cup {<<Word("Bearer"), tok, Word("extra")>> : tok \in Tokens(t)}

\* tokenHeader && tokenHeader.split(" ")[1]
ExtractToken(tokenHeader) ==
  IF tokenHeader = NoHeader THEN NoSeg
  ELSE IF Len(tokenHeader) >= 2 THEN tokenHeader[2] ELSE NoSeg

TokenNotFound == ApiError("Token not found", 401)

AuthError == ApiError("Error authenticating user", 401)

NoError == ApiError("", 0)

\* jwt.verify called with ignoreExpiration
JwtVerifyIgnoreExpiration(token, secret, t) ==
  IF token.kind # "jwt"
    THEN [error |-> "jwt malformed", decoded |-> NoUser]
  ELSE IF token.sig # HS256(token.body, secret)
    THEN [error |-> "invalid signature", decoded |-> NoUser]
  ELSE [error |-> "", decoded |-> token.body]

\* the guard with the missing-token branch falling through to next()
AuthOutcome_MissingTokenPasses(tokenHeader, user, t) ==
  LET token == ExtractToken(tokenHeader)
      v == JwtVerify(token, OrDefault(JWT_SECRET, "secret"), t)
  IN  IF Falsy(token)
        THEN [err |-> NoError, user |-> user, calls |-> <<"next()">>]
      ELSE IF v.error # ""
        THEN [err |-> AuthError, user |-> user, calls |-> <<"jwt.verify", "next(err)">>]
      ELSE [err |-> NoError, user |-> v.decoded, calls |-> <<"jwt.verify", "next()">>]

\* the guard with the callback's error argument ignored
AuthOutcome_ErrorIgnored(tokenHeader, user, t) ==
  LET token == ExtractToken(tokenHeader)
  IN  IF Falsy(token)
        THEN [err |-> TokenNotFound, user |-> user, calls |-> <<"next(err)">>]
      ELSE IF token.kind # "jwt"
        THEN [err |-> AuthError, user |-> user, calls |-> <<"jwt.verify", "next(err)">>]
      ELSE [err |-> NoError, user |-> token.body, calls |-> <<"jwt.verify", "next()">>]

\* the guard verifying with ignoreExpiration
AuthOutcome_IgnoreExpiration(tokenHeader, user, t) ==
  LET token == ExtractToken(tokenHeader)
      v == JwtVerifyIgnoreExpiration(token, OrDefault(JWT_SECRET, "secret"), t)
  IN  IF Falsy(token)
        THEN [err |-> TokenNotFound, user |-> user, calls |-> <<"next(err)">>]
      ELSE IF v.error # ""
        THEN [err |-> AuthError, user |-> user, calls |-> <<"jwt.verify", "next(err)">>]
      ELSE [err |-> NoError, user |-> v.decoded, calls |-> <<"jwt.verify", "next()">>]

\* the guard calling next() without assigning req.user
AuthOutcome_UserNotAttached(tokenHeader, user, t) ==
  LET token == ExtractToken(tokenHeader)
      v == JwtVerify(token, OrDefault(JWT_SECRET, "secret"), t)
  IN  IF Falsy(token)
        THEN [err |-> TokenNotFound, user |-> user, calls |-> <<"next(err)">>]
      ELSE IF v.error # ""
        THEN [err |-> AuthError, user |-> user, calls |-> <<"jwt.verify", "next(err)">>]
      ELSE [err |-> NoError, user |-> user, calls |-> <<"jwt.verify", "next()">>]

\* the guard with the missing-token branch not returning: next(err) is
\* followed by jwt.verify(undefined), whose error reaches next again
AuthOutcome_NoReturn(tokenHeader, user, t) ==
  LET token == ExtractToken(tokenHeader)
      v == JwtVerify(token, OrDefault(JWT_SECRET, "secret"), t)
  IN  IF Falsy(token)
        THEN [err |-> TokenNotFound, user |-> user,
              calls |-> <<"next(err)", "jwt.verify", "next(err)">>]
      ELSE IF v.error # ""
        THEN [err |-> AuthError, user |-> user, calls |-> <<"jwt.verify", "next(err)">>]
      ELSE [err |-> NoError, user |-> v.decoded, calls |-> <<"jwt.verify", "next()">>]

\* the guard assigning the token's payload to req.user before the error check
AuthOutcome_AttachOnError(tokenHeader, user, t) ==
  LET token == ExtractToken(tokenHeader)
      v == JwtVerify(token, OrDefault(JWT_SECRET, "secret"), t)
  IN  IF Falsy(token)
        THEN [err |-> TokenNotFound, user |-> user, calls |-> <<"next(err)">>]
      ELSE IF v.error # ""
        THEN [err |-> AuthError,
              user |-> IF token.kind = "jwt" THEN token.body ELSE user,
              calls |-> <<"jwt.verify", "next(err)">>]
      ELSE [err |-> NoError, user |-> v.decoded, calls |-> <<"jwt.verify", "next()">>]

\* authMiddleware: the first argument it passes to next, the req.user it
\* leaves behind, and its calls in order.  The header is a string and
\* jwt.verify with a callback reports every failure through the callback,
\* so nothing reaches the catch block.
AuthOutcome(tokenHeader, user, t) ==
  LET token == ExtractToken(tokenHeader)
      v == JwtVerify(token, OrDefault(JWT_SECRET, "secret"), t)
  IN  IF Falsy(token)
        THEN [err |-> TokenNotFound, user |-> user, calls |-> <<"next(err)">>]
      ELSE IF v.error # ""
        THEN [err |-> AuthError, user |-> user, calls |-> <<"jwt.verify", "next(err)">>]
      ELSE [err |-> NoError, user |-> v.decoded, calls |-> <<"jwt.verify", "next()">>]

\* Express runs the route's next handler after next() and skips to the
\* final error handler after next(err)
RunsNextHandler(outcome) == outcome.err = NoError

\* GET /api/profile arrives and authMiddleware runs
authMiddleware(p) ==
  /\ pc[p] = "idle"
  /\ \E h \in Headers(now) :
       LET out == AuthOutcome(h, NoUser, now) IN
       /\ req' = [req EXCEPT ![p] = [NoReq EXCEPT !.kind = "profile",
                    !.authorization = h, !.user = out.user]]
       /\ trace' = [trace EXCEPT ![p] = <<"authMiddleware">> \o out.calls]
       /\ IF RunsNextHandler(out)
            THEN /\ pc' = [pc EXCEPT ![p] = "getAll"]
                 /\ UNCHANGED res
            ELSE /\ pc' = [pc EXCEPT ![p] = "done"]
                 /\ res' = [res EXCEPT ![p] = NextErr(out.err)]
  /\ UNCHANGED <<users, now, JWT_SECRET, loc>>

GetAllCatch == ApiError("Error getting users", 500)

\* await userRepository.findAllUsers(); an array is never falsy, so the
\* 404 branch is not taken
getAll(p) ==
  /\ pc[p] = "getAll"
  /\ \E dbFails \in BOOLEAN :
       IF dbFails
         THEN /\ res' = [res EXCEPT ![p] = NextErr(GetAllCatch)]
              /\ trace' = [trace EXCEPT ![p] = Append(Append(@, "getAll"), "getAll:next(err)")]
         ELSE /\ res' = [res EXCEPT ![p] = Json(200, "", users, NoSeg)]
              /\ trace' = [trace EXCEPT ![p] = Append(@, "getAll")]
  /\ pc' = [pc EXCEPT ![p] = "done"]
  /\ UNCHANGED <<users, now, JWT_SECRET, req, loc>>

(***************************************************************************)
(* Spec: one request at a time, all three routes and the clock.            *)
(* SpecConc: registrations in flight together.                             *)
(***************************************************************************)
Next ==
  \/ \E p \in Serial :
       \/ StartSignUp(p) \/ signUp_find(p) \/ signUp_hash(p) \/ signUp_insert(p)
       \/ StartLogin(p) \/ login_find(p) \/ login_compare(p)
       \/ authMiddleware(p) \/ getAll(p)
       \/ Finish(p)
  \/ Tick

Spec == Init /\ [][Next]_vars

NextConc ==
  \E p \in Procs :
    \/ StartSignUp(p) \/ signUp_find(p) \/ signUp_hash(p) \/ signUp_insert(p)
    \/ Finish(p)

SpecConc == Init /\ [][NextConc]_vars

(***************************************************************************)
(* Properties.                                                             *)
(***************************************************************************)
\* p takes a GET /api/profile request in this step
Arrives(p) == pc[p] = "idle" /\ req'[p].kind = "profile"

\* the token the guard extracts from p's request
TokenOf(p) == ExtractToken(req[p].authorization)

\* the guard's own outcome on header h at time t is Rejected
GuardRejects(h, t) ==
  Falsy(ExtractToken(h)) \/ JwtVerify(ExtractToken(h), SECRET, t).error # ""

\* the header is not exactly the scheme Bearer followed by one token
Malformed(h) == h = NoHeader \/ Len(h) # 2 \/ h[1] # Word("Bearer")

\* C1: whenever the guard's outcome on an arriving request is Rejected, the
\* request ends in that step with status 401 and getAll has not run; a
\* request that has ended never resumes, so getAll never runs for it.
C1_HardGate ==
  [][\A p \in Procs :
       /\ (Arrives(p) /\ GuardRejects(req'[p].authorization, now))
            => /\ pc'[p] = "done"
               /\ res'[p].status = 401
               /\ \A i \in 1..Len(trace'[p]) : trace'[p][i] # "getAll"
       /\ pc[p] = "done" => pc'[p] \in {"done", "idle"}]_vars

\* a request carrying a token with a bad signature has been turned away
C1_Witness ==
  \E p \in Procs :
    /\ req[p].kind = "profile" /\ pc[p] = "done"
    /\ req[p].authorization = <<Word("Bearer"),
         FlipSignature(JwtSign([id |-> 1], SECRET, OneHour, 0))>>
    /\ res[p].status = 401
    /\ trace[p] = <<"authMiddleware", "jwt.verify", "next(err)">>

\* C2: every request with a structurally malformed Authorization header
\* (missing, scheme other than Bearer, more than two segments) is rejected
\* with 401 and never reaches Verified.
C2_MalformedRejected ==
  \A p \in Procs :
    (req[p].kind = "profile" /\ Malformed(req[p].authorization))
      => /\ pc[p] = "done"
         /\ res[p].status = 401
         /\ req[p].user = NoUser

\* C3: an arriving request whose extracted token has a signature that does
\* not match the secret, or whose expires-at has passed, ends in that step
\* with the 401 "Error authenticating user" and without req.user.
C3_BadTokenRejected ==
  [][\A p \in Procs :
       (/\ Arrives(p)
        /\ TokenOf(p)'.kind = "jwt"
        /\ \/ TokenOf(p)'.sig # HS256(TokenOf(p)'.body, SECRET)
           \/ now >= TokenOf(p)'.body.exp)
         => /\ pc'[p] = "done"
            /\ res'[p] = NextErr(ApiError("Error authenticating user", 401))
            /\ req'[p].user = NoUser]_vars

\* an expired, correctly signed token has been turned away
C3_Witness ==
  \E p \in Procs :
    /\ req[p].kind = "profile" /\ pc[p] = "done"
    /\ TokenOf(p) = JwtSign([id |-> 1], SECRET, OneHour, 0)
    /\ now = OneHour
    /\ res[p].status = 401 /\ res[p].message = "Error authenticating user"

\* p's request of the given kind has been answered
Answered(p, kind) == req[p].kind = kind /\ pc[p] = "done"

\* the answer came from the handler's catch block
Caught(p) == res[p].message \in {SignUpCatch.message, LoginCatch.message}

\* C4: a login for a key with no record is answered exactly as a login
\* with a wrong password is: same status, same message.
C4_EnumerationResistant ==
  \A p \in Procs :
    (/\ Answered(p, "login") /\ ~Caught(p)
     /\ findUserByEmail(req[p].body.email) = NoRow)
      => /\ res[p].status = LoginInvalidPassword.status
         /\ res[p].message = LoginInvalidPassword.message

\* C5: no two rows of the users table hold the same email.
C5_UniqueLoginKey ==
  \A i, j \in 1..Len(users) : users[i].email = users[j].email => i = j

\* a registration is past its duplicate check, about to insert, while a row
\* for its email has been inserted by another registration
C5_Witness ==
  \E p \in Procs :
    /\ pc[p] = "signUp_insert"
    /\ findUserByEmail(req[p].body.email) # NoRow
    /\ \E q \in Procs \ {p} :
         Answered(q, "signUp") /\ res[q].status = 201
           /\ req[q].body.email = req[p].body.email

\* C6: a registration turned away because a record exists for its key is
\* answered 409 and adds no row; any other completed registration that did
\* not fail internally is answered 201.
C6_Duplicate409 ==
  \A p \in Procs :
    (Answered(p, "signUp") /\ ~Caught(p))
      => \/ res[p].status = 201
         \/ res[p].status = 409 /\ res[p].rows = <<>>

\* C7: the body of a 201 registration response holds no password field.
C7_NoDigestInResponse ==
  \A p \in Procs :
    (Answered(p, "signUp") /\ res[p].status = 201)
      => \A i \in 1..Len(res[p].rows) : "password" \notin DOMAIN res[p].rows[i]

\* v is a bcrypt digest of plaintext w under the default cost
IsDigestOf(v, w) == \E salt \in GenSalt(SaltRoundsDefault) : v = BcryptHash(w, salt)

\* C8: every row holds in its password column a bcrypt digest of some
\* plaintext, and the row created by an answered registration holds a digest
\* of the plaintext that registration submitted.
C8_DigestStored ==
  /\ \A i \in 1..Len(users) : \E w \in Passwords : IsDigestOf(users[i].password, w)
  /\ \A p \in Procs :
       (Answered(p, "signUp") /\ res[p].status = 201)
         => /\ Len(res[p].rows) = 1
            /\ res[p].rows[1].id \in 1..Len(users)
            /\ users[res[p].rows[1].id].email = req[p].body.email
            /\ IsDigestOf(users[res[p].rows[1].id].password, req[p].body.password)

\* a registration has been answered 201 and its row is in the table
C8_Witness ==
  \E p \in Procs :
    /\ Answered(p, "signUp") /\ res[p].status = 201
    /\ Len(users) = 2
    /\ users[2].email = req[p].body.email

\* C9: a login for a key registered with plaintext w that did not fail
\* internally is answered 200 with a token when it submits w, and 401
\* without a token when it submits anything else.
C9_LoginAfterRegister ==
  \A p \in Procs : \A w \in Passwords :
    (/\ Answered(p, "login") /\ ~Caught(p)
     /\ findUserByEmail(req[p].body.email) # NoRow
     /\ IsDigestOf(findUserByEmail(req[p].body.email).password, w))
      => IF req[p].body.password = w
           THEN res[p].status = 200 /\ res[p].token.kind = "jwt"
           ELSE res[p].status = 401 /\ res[p].token = NoSeg

\* a login with a password other than the registered one has been answered
C9_Witness ==
  \E p \in Procs :
    /\ Answered(p, "login")
    /\ findUserByEmail(req[p].body.email) # NoRow
    /\ ~IsDigestOf(findUserByEmail(req[p].body.email).password, req[p].body.password)
    /\ res[p].status = 401

\* C10: a token issued at t with time-to-live d under the secret is accepted
\* by the guard at time now only if now < t + d; with d = 0 it is never
\* accepted.
C10_Expiry ==
  [][\A p \in Procs : \A i \in Ids, d \in TTLs, t \in Times :
       (Arrives(p) /\ TokenOf(p)' = JwtSign([id |-> i], SECRET, d, t))
         => /\ pc'[p] = "getAll" => now < t + d
            /\ now >= t + d => pc'[p] = "done" /\ res'[p].status = 401
            /\ d = 0 => pc'[p] = "done" /\ res'[p].status = 401]_vars

\* a token issued just now with time-to-live 0 has been turned away
C10_Witness ==
  \E p \in Procs :
    /\ Answered(p, "profile")
    /\ req[p].authorization = <<Word("Bearer"), JwtSign([id |-> 1], SECRET, 0, now)>>
    /\ now > 0
    /\ res[p].status = 401

\* control has reached getAll for p's request
ReachedHandler(p) ==
  req[p].kind = "profile"
    /\ (pc[p] = "getAll" \/ \E i \in 1..Len(trace[p]) : trace[p][i] = "getAll")

\* the calls of next the guard made for p's request
GuardNextCalls(p) ==
  {i \in 1..Len(trace[p]) : trace[p][i] \in {"next()", "next(err)"}}

\* C11: when control reaches getAll, the guard has verified the token and
\* called next with no error argument, and req.user holds exactly the claims
\* the issuer bound into the presented token under the secret.
C11_ClaimsAttached ==
  \A p \in Procs :
    ReachedHandler(p)
      => /\ SubSeq(trace[p], 1, 3) = <<"authMiddleware", "jwt.verify", "next()">>
         /\ req[p].user = TokenOf(p).body
         /\ TokenOf(p) = JwtSign([id |-> req[p].user.id], SECRET,
                                 req[p].user.exp - req[p].user.iat, req[p].user.iat)

\* getAll is about to run with the claims of a token issued for user 2
C11_Witness ==
  \E p \in Procs :
    /\ pc[p] = "getAll"
    /\ req[p].authorization = <<Word("Bearer"), JwtSign([id |-> 2], SECRET, OneHour, 0)>>
    /\ req[p].user = [id |-> 2, iat |-> 0, exp |-> OneHour]

\* C16: a request whose header is "Bearer " (an empty token) ends with the
\* 401 "Token not found"; jwt.verify is not called and getAll does not run.
C16_EmptyTokenRejected ==
  \A p \in Procs :
    (req[p].kind = "profile" /\ req[p].authorization = <<Word("Bearer"), Word("")>>)
      => /\ pc[p] = "done"
         /\ res[p] = NextErr(ApiError("Token not found", 401))
         /\ trace[p] = <<"authMiddleware", "next(err)">>

\* the request with the header "Bearer " has been answered
C16_Witness ==
  \E p \in Procs :
    /\ Answered(p, "profile")
    /\ req[p].authorization = <<Word("Bearer"), Word("")>>
    /\ res[p].status = 401

\* C17: once the guard has run for a request it has called next exactly once.
C17_NextOnce ==
  \A p \in Procs :
    req[p].kind = "profile" => Cardinality(GuardNextCalls(p)) = 1

\* the guard has run on a request without a header and called next(err) once
C17_Witness ==
  \E p \in Procs :
    /\ Answered(p, "profile")
    /\ req[p].authorization = NoHeader
    /\ trace[p] = <<"authMiddleware", "next(err)">>

\* C19: whenever the guard called next with an error, req.user is as it was
\* when the guard was entered (unset).
C19_UserOnlyOnSuccess ==
  \A p \in Procs :
    (req[p].kind = "profile" /\ \E i \in 1..Len(trace[p]) : trace[p][i] = "next(err)")
      => req[p].user = NoUser

\* a well-formed token signed with another key has been turned away
C19_Witness ==
  \E p \in Procs :
    /\ Answered(p, "profile")
    /\ TokenOf(p).kind = "jwt"
    /\ TokenOf(p).sig.key # SECRET
    /\ trace[p] = <<"authMiddleware", "jwt.verify", "next(err)">>
    /\ req[p].user = NoUser

\* C12: the token of a 200 login carries the matched row's id and its email,
\* and expires one configured time-to-live (default one day) after issue.
C12_TokenBinding ==
  \A p \in Procs :
    (Answered(p, "login") /\ res[p].status = 200)
      => /\ res[p].token.body.id = findUserByEmail(req[p].body.email).id
         /\ "email" \in DOMAIN res[p].token.body
         /\ res[p].token.body.email = req[p].body.email
         /\ res[p].token.body.exp = res[p].token.body.iat + OneDay

\* C13: with JWT_SECRET unset or empty no login is answered with a token
\* and no request passes the guard.
C13_NoFallbackKey ==
  JWT_SECRET \in {Undefined, ""}
    => \A p \in Procs :
         /\ ~(Answered(p, "login") /\ res[p].token.kind = "jwt")
         /\ ~ReachedHandler(p)

\* C14: an answer that comes from a handler's catch block has status 500.
C14_InternalFailure500 ==
  \A p \in Procs :
    (pc[p] = "done"
       /\ res[p].message \in {SignUpCatch.message, LoginCatch.message, GetAllCatch.message})
      => res[p].status = 500

\* lowercase and trim, on the emails of the model
NormalizeEmail(email) ==
  CASE email = "Alice@x.com" -> "alice@x.com"
    [] OTHER -> email

\* the rows whose email equals the given one up to case and whitespace
RowsFor(email) ==
  {i \in 1..Len(users) : NormalizeEmail(users[i].email) = NormalizeEmail(email)}

\* C15: no two rows hold emails that differ only in case or surrounding
\* whitespace (the later registration was refused as a duplicate), and a
\* login with any such variant of a registered email and that row's password
\* is answered with a token for that row.
C15_NormalizedKey ==
  /\ \A i, j \in 1..Len(users) :
       NormalizeEmail(users[i].email) = NormalizeEmail(users[j].email) => i = j
  /\ \A p \in Procs : \A i \in RowsFor(req[p].body.email) :
       (/\ Answered(p, "login") /\ ~Caught(p)
        /\ IsDigestOf(users[i].password, req[p].body.password))
         => /\ res[p].status = 200
            /\ res[p].token.kind = "jwt"
            /\ res[p].token.body.id = users[i].id

\* C18: a step of a registration changes the users table only when it ends
\* the request with 201, and then it appends exactly one row, for that
\* request's email, leaving the rows before it as they were; Start and
\* Finish steps leave the table alone.
C18_StoreFrame ==
  [][\A p \in Procs :
       pc'[p] # pc[p]
         => IF pc[p] = "signUp_insert" /\ res'[p].status = 201
              THEN /\ Len(users') = Len(users) + 1
                   /\ SubSeq(users', 1, Len(users)) = users
                   /\ users'[Len(users')].email = req[p].body.email
              ELSE users' = users]_vars

\* a registration has been refused by the unique index while another's row
\* is in the table
C18_Witness ==
  \E p \in Procs :
    /\ Answered(p, "signUp")
    /\ res[p] = NextErr(SignUpCatch)
    /\ Len(users) = 2
    /\ \E q \in Procs \ {p} : Answered(q, "signUp") /\ res[q].status = 201

====
